---- MODULE Spec2Model ----
(***************************************************************************)
(* Model of the AI Document Assistant backend (FastAPI routers over a      *)
(* Firestore "projects" collection and the Gemini text-generation API).    *)
(*                                                                         *)
(* Python dicts are modelled as TLA+ functions whose DOMAIN is the set of  *)
(* keys present; Python strings that the code builds by concatenation are  *)
(* modelled as sequences of tokens (\o is the concatenation).              *)
(***************************************************************************)
EXTENDS Integers, Sequences, FiniteSets, TLC

VARIABLES
  store,           \* the Firestore collection "projects": project id -> document
  nextId,          \* the id the next collection.add() mints
  clock,           \* the value datetime.utcnow() returns
  gemini_api_key,  \* documents_router.gemini_api_key (truthy or not)
  request,         \* the request handled last
  response,        \* the response to it
  calls,           \* the model.generate_content calls made while handling it
  inflight         \* the handlers between their doc_ref.get() and doc_ref.update()

vars == <<store, nextId, clock, gemini_api_key, request, response, calls, inflight>>

-----------------------------------------------------------------------------
(* Bounds *)

MaxProjects == 1
MaxHist == 2
MaxClock == 1
MaxLen == 2

-----------------------------------------------------------------------------
(* Inputs *)

None == "<None>"

Users == {"u1", "u2"}

\* An Authorization header: absent, a bearer token Firebase rejects, or the
\* ID token of a user (written as the user's uid).
CredInputs == {"<absent>", "<invalid>"} \cup Users

ProjectIds == 1..MaxProjects

DocTypes == {"docx", "pptx"}

\* Outline / slide items as the client sends them: dicts, "id" optional.
ItemInputs ==
  { [title |-> "A", order |-> 1],
    [id |-> "a", title |-> "B", order |-> 0] }

RECURSIVE SeqsUpTo(_, _)
SeqsUpTo(S, n) ==
  IF n = 0 THEN {<<>>}
  ELSE LET shorter == SeqsUpTo(S, n - 1)
       IN  shorter \cup {Append(s, e) : s \in {t \in shorter : Len(t) = n - 1}, e \in S}

OutlineInputs == SeqsUpTo(ItemInputs, MaxLen)

SectionIdInputs == {"section_1", "zz"}

PromptInputs == {"shorter"}

\* What one model.generate_content call does: returns text, or raises.
ModelTexts == {<<"g1">>}
ModelErrors == {"quota"}
Outcomes ==
  {[ok |-> TRUE, text |-> t] : t \in ModelTexts} \cup
  {[ok |-> FALSE, err |-> e] : e \in ModelErrors}

-----------------------------------------------------------------------------
(* Python helpers *)

Get(d, k, default) == IF k \in DOMAIN d THEN d[k] ELSE default

\* A pydantic Optional field is None exactly when the payload has no such key.
IsNone(payload, k) == k \notin DOMAIN payload

\* The payloads that leave field k out or give it a value of S.
OptField(k, S) == {<<>>} \cup {k :> v : v \in S}

Min(a, b) == IF a < b THEN a ELSE b

\* s[:n]
Take(s, n) == SubSeq(s, 1, Min(n, Len(s)))

\* sorted(xs, key=...): Python's sort is stable.  Keyed(k, v) pairs are
\* inserted one by one behind every pair whose key is not larger.
RECURSIVE InsertByKey(_, _)
InsertByKey(sorted, x) ==
  IF sorted = <<>> THEN <<x>>
  ELSE IF sorted[Len(sorted)][1] <= x[1] THEN Append(sorted, x)
  ELSE Append(InsertByKey(SubSeq(sorted, 1, Len(sorted) - 1), x), sorted[Len(sorted)])

RECURSIVE SortedByKey(_)
SortedByKey(pairs) ==
  IF pairs = <<>> THEN <<>>
  ELSE InsertByKey(SortedByKey(SubSeq(pairs, 1, Len(pairs) - 1)), pairs[Len(pairs)])

ItemOrder(x) == Get(x, "order", 0)

\* The items taken as they are stored, without the sort.
SortedItems_Unsorted(items) == items

\* sorted(outline, key=lambda x: x.get("order", 0))
SortedItems(items) ==
  LET pairs == [i \in 1..Len(items) |-> <<ItemOrder(items[i]), items[i]>>]
      sorted == SortedByKey(pairs)
  IN  [i \in 1..Len(items) |-> sorted[i][2]]

-----------------------------------------------------------------------------
(* Authentication: HTTPBearer and verify_token *)

\* security = HTTPBearer(): with no Authorization header the dependency
\* rejects the request itself (auto_error), verify_token is never entered.
security(cred) ==
  IF cred = "<absent>" THEN [status |-> 403] ELSE [status |-> 200, credentials |-> cred]

\* auth.verify_id_token: the decoded token of a user's ID token, else raises.
verify_id_token(token) ==
  IF token \in Users THEN [raised |-> FALSE, uid |-> token] ELSE [raised |-> TRUE]

\* verify_token without its except clause turning a failed verification into
\* a 401: the handler runs with whatever the credential names.
verify_token_Unchecked(cred) ==
  LET credentials == security(cred)
  IN  IF credentials.status # 200 THEN [status |-> credentials.status]
      ELSE [status |-> 200, uid |-> credentials.credentials]

verify_token(cred) ==
  LET credentials == security(cred)
  IN  IF credentials.status # 200 THEN [status |-> credentials.status]
      ELSE LET decoded_token == verify_id_token(credentials.credentials)
           IN  IF decoded_token.raised THEN [status |-> 401]
               ELSE [status |-> 200, uid |-> decoded_token.uid]

-----------------------------------------------------------------------------
(* The store *)

\* doc_ref.update(fields): the named fields are replaced, the others kept.
DocUpdate(pid, fields) == [store EXCEPT ![pid] = fields @@ store[pid]]

\* A handler returns without touching the store.
Respond(req, status, body) ==
  /\ request' = req
  /\ response' = [status |-> status, body |-> body]
  /\ inflight' = inflight

NoBody == <<>>

\* The checks without the comparison of user_id.
Access_NoOwnerCheck(pid, user_id) ==
  IF pid \notin DOMAIN store THEN 404 ELSE 200

\* The steps shared by every project-scoped handler: doc_ref.get(), the
\* existence check and the ownership check.  200 means "go on".
Access(pid, user_id) ==
  IF pid \notin DOMAIN store THEN 404
  ELSE IF store[pid]["user_id"] # user_id THEN 403
  ELSE 200

\* raise HTTPException(404, "Project not found") / (403, "Access denied")
Deny(req, pid, user_id) ==
  Respond(req, Access(pid, user_id),
          IF Access(pid, user_id) = 404 THEN <<"Project not found">> ELSE <<"Access denied">>)

-----------------------------------------------------------------------------
(* projects_router *)

create_project(cred, project) ==
  LET req == [op |-> "create_project", cred |-> cred, pid |-> 0, body |-> NoBody]
      tok == verify_token(cred)
      project_data ==
        [name |-> project.name,
         document_type |-> project.document_type,
         topic |-> project.topic,
         outline |-> IF IsNone(project, "outline") THEN <<>> ELSE project.outline,
         slides |-> IF IsNone(project, "slides") THEN <<>> ELSE project.slides,
         user_id |-> tok.uid,
         created_at |-> clock,
         updated_at |-> clock,
         content |-> <<>>,
         refinement_history |-> <<>>]
  IN  /\ calls' = <<>>
      /\ IF tok.status # 200
         THEN /\ Respond(req, tok.status, NoBody)
              /\ UNCHANGED <<store, nextId>>
         ELSE /\ nextId <= MaxProjects
              /\ store' = (nextId :> project_data) @@ store
              /\ nextId' = nextId + 1
              /\ Respond(req, 201, [id |-> nextId, project |-> project_data])
      /\ UNCHANGED <<clock, gemini_api_key>>

get_project(cred, pid) ==
  LET req == [op |-> "get_project", cred |-> cred, pid |-> pid, body |-> NoBody]
      tok == verify_token(cred)
  IN  /\ calls' = <<>>
      /\ IF tok.status # 200 THEN Respond(req, tok.status, NoBody)
         ELSE IF Access(pid, tok.uid) # 200 THEN Deny(req, pid, tok.uid)
         ELSE Respond(req, 200, [id |-> pid, project |-> store[pid]])
      /\ UNCHANGED <<store, nextId, clock, gemini_api_key>>

\* An update that writes the whole model back, document_type at its default.
UpdateData_WithType(project_update) ==
  LET set == {k \in {"name", "topic", "outline", "slides"} : ~IsNone(project_update, k)}
  IN  [k \in set \cup {"updated_at", "document_type"} |->
         IF k = "updated_at" THEN clock
         ELSE IF k = "document_type" THEN "docx"
         ELSE project_update[k]]

\* The fields of ProjectUpdate that are not None, plus updated_at.  A key the
\* model does not declare (document_type) is dropped when the body is parsed.
UpdateData(project_update) ==
  LET set == {k \in {"name", "topic", "outline", "slides"} : ~IsNone(project_update, k)}
  IN  [k \in set \cup {"updated_at"} |->
         IF k = "updated_at" THEN clock ELSE project_update[k]]

update_project(cred, pid, project_update) ==
  LET req == [op |-> "update_project", cred |-> cred, pid |-> pid,
              body |-> DOMAIN project_update]
      tok == verify_token(cred)
  IN  /\ calls' = <<>>
      /\ IF tok.status # 200
         THEN Respond(req, tok.status, NoBody) /\ UNCHANGED store
         ELSE IF Access(pid, tok.uid) # 200
         THEN Deny(req, pid, tok.uid) /\ UNCHANGED store
         ELSE /\ store' = DocUpdate(pid, UpdateData(project_update))
              /\ Respond(req, 200, [id |-> pid, project |-> store'[pid]])
      /\ UNCHANGED <<nextId, clock, gemini_api_key>>

delete_project(cred, pid) ==
  LET req == [op |-> "delete_project", cred |-> cred, pid |-> pid, body |-> NoBody]
      tok == verify_token(cred)
  IN  /\ calls' = <<>>
      /\ IF tok.status # 200
         THEN Respond(req, tok.status, NoBody) /\ UNCHANGED store
         ELSE IF Access(pid, tok.uid) # 200
         THEN Deny(req, pid, tok.uid) /\ UNCHANGED store
         ELSE /\ store' = [p \in DOMAIN store \ {pid} |-> store[p]]
              /\ Respond(req, 200, NoBody)
      /\ UNCHANGED <<nextId, clock, gemini_api_key>>

-----------------------------------------------------------------------------
(* documents_router: feedback and comments *)

\* The history replaced by the new entry instead of extended by it.
HistoryAppend_Overwrite(refinement_history, entry) == <<entry>>

\* refinement_history.append(entry)
HistoryAppend(refinement_history, entry) == Append(refinement_history, entry)

add_feedback(cred, pid, feedback) ==
  LET req == [op |-> "add_feedback", cred |-> cred, pid |-> pid, body |-> NoBody]
      tok == verify_token(cred)
      entry == [section_id |-> feedback.section_id,
                feedback_type |-> feedback.feedback_type,
                comment |-> feedback.comment,
                timestamp |-> clock,
                type |-> "feedback"]
  IN  /\ calls' = <<>>
      /\ IF tok.status # 200
         THEN Respond(req, tok.status, NoBody) /\ UNCHANGED store
         ELSE IF Access(pid, tok.uid) # 200
         THEN Deny(req, pid, tok.uid) /\ UNCHANGED store
         ELSE /\ Len(Get(store[pid], "refinement_history", <<>>)) < MaxHist
              /\ store' = DocUpdate(pid,
                   [refinement_history |->
                      HistoryAppend(Get(store[pid], "refinement_history", <<>>), entry),
                    updated_at |-> clock])
              /\ Respond(req, 200, NoBody)
      /\ UNCHANGED <<nextId, clock, gemini_api_key>>

add_comment(cred, pid, comment) ==
  LET req == [op |-> "add_comment", cred |-> cred, pid |-> pid, body |-> NoBody]
      tok == verify_token(cred)
      entry == [section_id |-> comment.section_id,
                comment |-> comment.comment,
                timestamp |-> clock,
                type |-> "comment"]
  IN  /\ calls' = <<>>
      /\ IF tok.status # 200
         THEN Respond(req, tok.status, NoBody) /\ UNCHANGED store
         ELSE IF Access(pid, tok.uid) # 200
         THEN Deny(req, pid, tok.uid) /\ UNCHANGED store
         ELSE /\ Len(Get(store[pid], "refinement_history", <<>>)) < MaxHist
              /\ store' = DocUpdate(pid,
                   [refinement_history |->
                      HistoryAppend(Get(store[pid], "refinement_history", <<>>), entry),
                    updated_at |-> clock])
              /\ Respond(req, 200, NoBody)
      /\ UNCHANGED <<nextId, clock, gemini_api_key>>

-----------------------------------------------------------------------------
(* documents_router: text generation *)

ExcerptLen == 200

PlaceholderText(section_title) ==
  <<"This is placeholder content for ", section_title,
    ". Please configure GEMINI_API_KEY in your environment variables.">>

ErrorText(e) ==
  <<"Error generating content: ", e, ". Please check your Gemini API configuration.">>

\* The generated text, and the model.generate_content call made for it (none
\* without an API key).  outcome is what the call does.
generate_content_with_gemini(topic, section_title, document_type, context, outcome) ==
  IF ~gemini_api_key
  THEN [text |-> PlaceholderText(section_title), calls |-> <<>>]
  ELSE [text |-> IF outcome.ok THEN outcome.text ELSE ErrorText(outcome.err),
        calls |-> <<[topic |-> topic, section_title |-> section_title,
                     document_type |-> document_type, context |-> context,
                     raised |-> ~outcome.ok,
                     text |-> IF outcome.ok THEN outcome.text ELSE ErrorText(outcome.err)]>>]

\* " B ".strip() and so on, for the lines the model returns
Strip(line) ==
  CASE line = " B " -> "B"
    [] line = "  " -> ""
    [] OTHER -> line

TemplateLines == {<<"A", "", " B ", "  ">>}
TemplateOutcomes ==
  {[ok |-> TRUE, text |-> t] : t \in TemplateLines} \cup
  {[ok |-> FALSE, err |-> e] : e \in ModelErrors}

\* [line.strip() for line in response.text.split('\n') if line.strip()]
RECURSIVE Titles(_)
Titles(lines) ==
  IF lines = <<>> THEN <<>>
  ELSE LET rest == Titles(SubSeq(lines, 1, Len(lines) - 1))
           last == Strip(lines[Len(lines)])
       IN  IF last # "" THEN Append(rest, last) ELSE rest

generate_template_with_gemini(topic, document_type, outcome) ==
  IF ~gemini_api_key THEN [template |-> <<>>, calls |-> <<>>]
  ELSE [template |->
          IF outcome.ok
          THEN LET titles == Titles(outcome.text)
               IN  [i \in 1..Len(titles) |-> [title |-> titles[i], order |-> i - 1]]
          ELSE <<>>,
        calls |-> <<[topic |-> topic, document_type |-> document_type,
                     raised |-> ~outcome.ok]>>]

\* generate_template saving the template it returns as the project's items.
generate_template_Persisting(cred, pid, outcome) ==
  LET req == [op |-> "generate_template", cred |-> cred, pid |-> pid, body |-> NoBody]
      tok == verify_token(cred)
  IN  /\ IF tok.status # 200
         THEN Respond(req, tok.status, NoBody) /\ calls' = <<>> /\ UNCHANGED store
         ELSE IF Access(pid, tok.uid) # 200
         THEN Deny(req, pid, tok.uid) /\ calls' = <<>> /\ UNCHANGED store
         ELSE LET project_data == store[pid]
                  gen == generate_template_with_gemini(
                           project_data["topic"], project_data["document_type"], outcome)
              IN  /\ calls' = gen.calls
                  /\ store' = DocUpdate(pid,
                       IF project_data["document_type"] = "docx"
                       THEN [outline |-> gen.template]
                       ELSE [slides |-> gen.template])
                  /\ Respond(req, 200, [template |-> gen.template])
      /\ UNCHANGED <<nextId, clock, gemini_api_key>>

generate_template(cred, pid, outcome) ==
  LET req == [op |-> "generate_template", cred |-> cred, pid |-> pid, body |-> NoBody]
      tok == verify_token(cred)
  IN  /\ IF tok.status # 200
         THEN Respond(req, tok.status, NoBody) /\ calls' = <<>>
         ELSE IF Access(pid, tok.uid) # 200
         THEN Deny(req, pid, tok.uid) /\ calls' = <<>>
         ELSE LET project_data == store[pid]
                  gen == generate_template_with_gemini(
                           project_data["topic"], project_data["document_type"], outcome)
              IN  /\ calls' = gen.calls
                  /\ Respond(req, 200, [template |-> gen.template])
      /\ UNCHANGED <<store, nextId, clock, gemini_api_key>>

\* project_data.get("outline", []) of a docx project, project_data.get("slides", [])
\* of a pptx project
Items(project_data) ==
  IF project_data["document_type"] = "docx"
  THEN Get(project_data, "outline", <<>>)
  ELSE Get(project_data, "slides", <<>>)

\* One pass of the loop body of generate_content (lines 162-172 / 177-187).
GenerateItem(acc, item, outcome, topic, document_type) ==
  LET section_id ==
        Get(item, "id",
            (IF document_type = "docx" THEN "section_" ELSE "slide_")
              \o ToString(ItemOrder(item)))
      section_title ==
        Get(item, "title",
            IF document_type = "docx" THEN "Untitled Section" ELSE "Untitled Slide")
      gen == generate_content_with_gemini(topic, section_title, document_type,
                                          acc.context, outcome)
  IN  [content |->
         (section_id :> [title |-> section_title,
                         content |-> gen.text,
                         order |-> ItemOrder(item)]) @@ acc.content,
       context |-> acc.context \o <<"\n", section_title, ": ">>
                     \o Take(gen.text, ExcerptLen) \o <<"...">>,
       calls |-> acc.calls \o gen.calls]

\* The loop over the sorted items, from item i on.
RECURSIVE GenerateLoop(_, _, _, _, _, _)
GenerateLoop(acc, items, i, outcomes, topic, document_type) ==
  IF i > Len(items) THEN acc
  ELSE GenerateLoop(GenerateItem(acc, items[i], outcomes[i], topic, document_type),
                    items, i + 1, outcomes, topic, document_type)

generate_content(cred, pid, outcomes) ==
  LET req == [op |-> "generate_content", cred |-> cred, pid |-> pid, body |-> NoBody]
      tok == verify_token(cred)
  IN  /\ IF tok.status # 200
         THEN Respond(req, tok.status, NoBody) /\ calls' = <<>> /\ UNCHANGED store
         ELSE IF Access(pid, tok.uid) # 200
         THEN Deny(req, pid, tok.uid) /\ calls' = <<>> /\ UNCHANGED store
         ELSE LET project_data == store[pid]
                  document_type == project_data["document_type"]
                  items == Items(project_data)
                  done == GenerateLoop([content |-> <<>>, context |-> <<>>, calls |-> <<>>],
                                       SortedItems(items), 1, outcomes,
                                       project_data["topic"], document_type)
              IN  /\ calls' = done.calls
                  /\ store' = DocUpdate(pid, [content |-> done.content, updated_at |-> clock])
                  /\ Respond(req, 200, [content |-> done.content])
      /\ UNCHANGED <<nextId, clock, gemini_api_key>>

-----------------------------------------------------------------------------
(* documents_router: refinement *)

\* The names bound at module level in documents_router.py.  The handlers
\* reach the store through get_db(); no name db is bound.
ModuleNames ==
  {"APIRouter", "HTTPException", "Depends", "status", "FileResponse",
   "StreamingResponse", "firestore", "BaseModel", "List", "Optional", "Dict",
   "Any", "datetime", "io", "genai", "os", "load_dotenv", "Document",
   "Presentation", "Inches", "Pt", "verify_token", "router", "get_db",
   "gemini_api_key", "RefinementRequest", "FeedbackRequest", "CommentRequest",
   "generate_content_with_gemini", "generate_template_with_gemini",
   "generate_template", "generate_content", "refine_content", "add_feedback",
   "add_comment", "export_document"}

RefineErrorText(e) == <<"Error refining content: ", e>>

\* refine_content from doc_ref.get() on (lines 207-268), for a caller tok.
RefineBody(req, tok, pid, refinement, outcome) ==
  IF Access(pid, tok.uid) # 200
  THEN Deny(req, pid, tok.uid) /\ calls' = <<>> /\ UNCHANGED store
  ELSE
    LET project_data == store[pid]
        content == Get(project_data, "content", <<>>)
    IN  IF refinement.section_id \notin DOMAIN content
        THEN Respond(req, 404, <<"Section not found">>) /\ calls' = <<>> /\ UNCHANGED store
        ELSE
          LET section_data == content[refinement.section_id]
              original_content == Get(section_data, "content", <<>>)
              section_title == Get(section_data, "title", "")
              refined_content ==
                IF gemini_api_key
                THEN IF outcome.ok THEN outcome.text ELSE RefineErrorText(outcome.err)
                ELSE original_content
                       \o <<"\n\n[Refined based on: ", refinement.prompt, "]">>
              refinement_history == Get(project_data, "refinement_history", <<>>)
              entry == [section_id |-> refinement.section_id,
                        prompt |-> refinement.prompt,
                        timestamp |-> clock,
                        type |-> "refinement"]
          IN  /\ Len(refinement_history) < MaxHist
              /\ calls' = IF gemini_api_key
                          THEN <<[topic |-> project_data["topic"],
                                  section_title |-> section_title,
                                  original_content |-> original_content,
                                  prompt |-> refinement.prompt,
                                  raised |-> ~outcome.ok]>>
                          ELSE <<>>
              /\ store' = DocUpdate(pid,
                   [content |->
                      [content EXCEPT ![refinement.section_id] =
                         ("content" :> refined_content) @@ section_data],
                    refinement_history |-> HistoryAppend(refinement_history, entry),
                    updated_at |-> clock])
              /\ Respond(req, 200, [section_id |-> refinement.section_id,
                                    refined_content |-> refined_content])

\* Line 206 evaluates the global name db: a NameError when the module binds
\* none, which the server answers with 500 Internal Server Error.
refine_content(cred, pid, refinement, outcome) ==
  LET req == [op |-> "refine_content", cred |-> cred, pid |-> pid, body |-> refinement]
      tok == verify_token(cred)
  IN  /\ IF tok.status # 200
         THEN Respond(req, tok.status, NoBody) /\ calls' = <<>> /\ UNCHANGED store
         ELSE IF "db" \notin ModuleNames
         THEN Respond(req, 500, NoBody) /\ calls' = <<>> /\ UNCHANGED store
         ELSE RefineBody(req, tok, pid, refinement, outcome)
      /\ UNCHANGED <<nextId, clock, gemini_api_key>>

-----------------------------------------------------------------------------
(* documents_router: export *)

\* The orders in which iterating a dict with the keys S can yield them.
Orderings(S) ==
  {ks \in [1..Cardinality(S) -> S] : \A i, j \in 1..Cardinality(S) : ks[i] = ks[j] => i = j}

\* sorted(content.items(), key=lambda x: x[1].get("order", 0)), the items
\* being yielded in the order keys; then one heading and body per entry.
RenderedSections(content, keys) ==
  LET pairs == [i \in 1..Len(keys) |-> <<Get(content[keys[i]], "order", 0), keys[i]>>]
      sorted_content == SortedByKey(pairs)
  IN  [i \in 1..Len(keys) |->
         [title |-> Get(content[sorted_content[i][2]], "title", "Untitled"),
          body |-> Get(content[sorted_content[i][2]], "content", <<>>)]]

export_document(cred, pid) ==
  LET req == [op |-> "export_document", cred |-> cred, pid |-> pid, body |-> NoBody]
      tok == verify_token(cred)
  IN  /\ calls' = <<>>
      /\ IF tok.status # 200 THEN Respond(req, tok.status, NoBody)
         ELSE IF Access(pid, tok.uid) # 200 THEN Deny(req, pid, tok.uid)
         ELSE LET project_data == store[pid]
                  document_type == project_data["document_type"]
                  content == Get(project_data, "content", <<>>)
                  project_name == Get(project_data, "name", "document")
              IN  \E keys \in Orderings(DOMAIN content) :
                    Respond(req, 200,
                      [filename |-> <<project_name, ".", document_type>>,
                       heading |-> IF document_type = "docx"
                                   THEN <<Get(project_data, "topic", "Document")>>
                                   ELSE <<>>,
                       sections |-> RenderedSections(content, keys)])
      /\ UNCHANGED <<store, nextId, clock, gemini_api_key>>

-----------------------------------------------------------------------------
(* Time *)

Tick ==
  /\ clock < MaxClock
  /\ clock' = clock + 1
  /\ UNCHANGED <<store, nextId, gemini_api_key, request, response, calls, inflight>>

-----------------------------------------------------------------------------

\* The client sends the items of a docx project as "outline" and those of a
\* pptx project as "slides".
ProjectCreateInputs ==
  {[name |-> "n1", document_type |-> "docx", topic |-> "t1"] @@ o :
     o \in OptField("outline", OutlineInputs)} \cup
  {[name |-> "n1", document_type |-> "pptx", topic |-> "t1"] @@ o :
     o \in OptField("slides", OutlineInputs)}

\* An update names one field, or none.
ProjectUpdateInputs ==
  OptField("name", {"n1"}) \cup OptField("topic", {"t1"}) \cup
  OptField("outline", OutlineInputs) \cup OptField("slides", OutlineInputs) \cup
  OptField("document_type", DocTypes)

FeedbackInputs == [section_id : {"section_1"}, feedback_type : {"like"}, comment : {None}]

RefinementInputs == [section_id : SectionIdInputs, prompt : PromptInputs]

CommentInputs == [section_id : {"section_1"}, comment : {"c1"}]

\* The client edits the item list of the project's kind: "outline" of a docx
\* project, "slides" of a pptx project.
ClientEdits(pid, u) ==
  pid \in DOMAIN store =>
    /\ "outline" \in DOMAIN u => store[pid]["document_type"] = "docx"
    /\ "slides" \in DOMAIN u => store[pid]["document_type"] = "pptx"

Init ==
  /\ store = <<>>
  /\ nextId = 1
  /\ clock = 0
  /\ gemini_api_key \in BOOLEAN
  /\ request = [op |-> "none", cred |-> "<absent>", pid |-> 0, body |-> NoBody]
  /\ response = [status |-> 0, body |-> NoBody]
  /\ calls = <<>>
  /\ inflight = <<>>

\* The handler never sees the payload of a request that fails authentication:
\* one payload stands for all of them.
For(cred, payloads) == IF cred \in Users THEN payloads ELSE {CHOOSE x \in payloads : TRUE}

\* Projects are created by u1; u2 is another signed-in user.
Creators == {"u1"}

Next ==
  \/ \E cred \in CredInputs \ (Users \ Creators) :
       \E project \in For(cred, ProjectCreateInputs) : create_project(cred, project)
  \/ \E cred \in CredInputs, pid \in ProjectIds : get_project(cred, pid)
  \/ \E cred \in CredInputs, pid \in ProjectIds :
       \E u \in For(cred, ProjectUpdateInputs) :
         ClientEdits(pid, u) /\ update_project(cred, pid, u)
  \/ \E cred \in CredInputs, pid \in ProjectIds : delete_project(cred, pid)
  \/ \E cred \in CredInputs, pid \in ProjectIds :
       \E f \in For(cred, FeedbackInputs) : add_feedback(cred, pid, f)
  \/ \E cred \in CredInputs, pid \in ProjectIds :
       \E c \in For(cred, CommentInputs) : add_comment(cred, pid, c)
  \/ \E cred \in CredInputs, pid \in ProjectIds :
       \E o \in For(cred, TemplateOutcomes) : generate_template(cred, pid, o)
  \/ \E cred \in CredInputs, pid \in ProjectIds :
       \E os \in For(cred, [1..MaxLen -> Outcomes]) : generate_content(cred, pid, os)
  \/ \E cred \in CredInputs, pid \in ProjectIds :
       \E r \in For(cred, RefinementInputs), o \in For(cred, Outcomes) :
         refine_content(cred, pid, r, o)
  \/ \E cred \in CredInputs, pid \in ProjectIds : export_document(cred, pid)
  \/ Tick

Spec == Init /\ [][Next]_vars

\* The handlers as they run once line 206 reaches the store the way every
\* other handler does (get_db()): the body of refine_content is executed.
refine_content_body(cred, pid, refinement, outcome) ==
  LET req == [op |-> "refine_content", cred |-> cred, pid |-> pid, body |-> refinement]
      tok == verify_token(cred)
  IN  /\ IF tok.status # 200
         THEN Respond(req, tok.status, NoBody) /\ calls' = <<>> /\ UNCHANGED store
         ELSE RefineBody(req, tok, pid, refinement, outcome)
      /\ UNCHANGED <<nextId, clock, gemini_api_key>>

NextBody ==
  \/ \E cred \in CredInputs \ (Users \ Creators) :
       \E project \in For(cred, ProjectCreateInputs) : create_project(cred, project)
  \/ \E cred \in CredInputs, pid \in ProjectIds :
       \E os \in For(cred, [1..MaxLen -> Outcomes]) : generate_content(cred, pid, os)
  \/ \E cred \in CredInputs, pid \in ProjectIds :
       \E r \in For(cred, RefinementInputs), o \in For(cred, Outcomes) :
         refine_content_body(cred, pid, r, o)
  \/ Tick

SpecBody == Init /\ [][NextBody]_vars

\* Two server processes on the same Firestore collection, each handling one
\* history-appending request: doc_ref.get() and doc_ref.update() are separate
\* round trips to the store, and the other process may run between them.
Workers == {"w1", "w2"}

\* add_feedback up to refinement_history.append(...)
add_feedback_get(w, cred, pid, feedback) ==
  LET req == [op |-> "add_feedback", cred |-> cred, pid |-> pid, body |-> NoBody]
      tok == verify_token(cred)
      entry == [section_id |-> feedback.section_id,
                feedback_type |-> feedback.feedback_type,
                comment |-> feedback.comment,
                timestamp |-> clock,
                type |-> "feedback"]
  IN  /\ w \notin DOMAIN inflight
      /\ calls' = <<>>
      /\ IF tok.status # 200
         THEN Respond(req, tok.status, NoBody)
         ELSE IF Access(pid, tok.uid) # 200
         THEN Deny(req, pid, tok.uid)
         ELSE /\ inflight' = (w :> [req |-> req, entry |-> entry, done |-> FALSE,
                                    refinement_history |->
                                      HistoryAppend(Get(store[pid], "refinement_history", <<>>),
                                                    entry)]) @@ inflight
              /\ UNCHANGED <<request, response>>
      /\ UNCHANGED <<store, nextId, clock, gemini_api_key>>

\* add_comment up to refinement_history.append(...)
add_comment_get(w, cred, pid, comment) ==
  LET req == [op |-> "add_comment", cred |-> cred, pid |-> pid, body |-> NoBody]
      tok == verify_token(cred)
      entry == [section_id |-> comment.section_id,
                comment |-> comment.comment,
                timestamp |-> clock,
                type |-> "comment"]
  IN  /\ w \notin DOMAIN inflight
      /\ calls' = <<>>
      /\ IF tok.status # 200
         THEN Respond(req, tok.status, NoBody)
         ELSE IF Access(pid, tok.uid) # 200
         THEN Deny(req, pid, tok.uid)
         ELSE /\ inflight' = (w :> [req |-> req, entry |-> entry, done |-> FALSE,
                                    refinement_history |->
                                      HistoryAppend(Get(store[pid], "refinement_history", <<>>),
                                                    entry)]) @@ inflight
              /\ UNCHANGED <<request, response>>
      /\ UNCHANGED <<store, nextId, clock, gemini_api_key>>

\* doc_ref.update({"refinement_history": ..., "updated_at": ...}) and the return
doc_ref_update(w) ==
  /\ w \in DOMAIN inflight
  /\ ~inflight[w].done
  /\ store' = DocUpdate(inflight[w].req.pid,
                        [refinement_history |-> inflight[w].refinement_history,
                         updated_at |-> clock])
  /\ request' = inflight[w].req
  /\ response' = [status |-> 200, body |-> NoBody]
  /\ inflight' = [inflight EXCEPT ![w].done = TRUE]
  /\ UNCHANGED <<nextId, clock, gemini_api_key, calls>>

NextConc ==
  \/ \E cred \in CredInputs \ (Users \ Creators) :
       \E project \in For(cred, ProjectCreateInputs) : create_project(cred, project)
  \/ \E w \in Workers, cred \in CredInputs, pid \in ProjectIds :
       \E f \in For(cred, FeedbackInputs) : add_feedback_get(w, cred, pid, f)
  \/ \E w \in Workers, cred \in CredInputs, pid \in ProjectIds :
       \E c \in For(cred, CommentInputs) : add_comment_get(w, cred, pid, c)
  \/ \E w \in Workers : doc_ref_update(w)
  \/ Tick

SpecConc == Init /\ [][NextConc]_vars

\* Content generation alone, with a model that also returns a text longer
\* than the excerpt the context keeps of it.
LongText == [i \in 1..(ExcerptLen + 1) |-> "x"]

LongOutcomes == Outcomes \cup {[ok |-> TRUE, text |-> LongText]}

NextGen ==
  \/ \E cred \in CredInputs \ (Users \ Creators) :
       \E project \in For(cred, ProjectCreateInputs) : create_project(cred, project)
  \/ \E cred \in CredInputs, pid \in ProjectIds :
       \E os \in For(cred, [1..MaxLen -> LongOutcomes]) : generate_content(cred, pid, os)
  \/ Tick

SpecGen == Init /\ [][NextGen]_vars

-----------------------------------------------------------------------------
(* Properties *)

IsPrefix(s, t) == Len(s) <= Len(t) /\ SubSeq(t, 1, Len(s)) = s

\* The step handles a request (every step but Tick leaves the clock alone).
Handled == clock' = clock

\* The request handled by the step comes from the owner of an existing project.
ByOwner == /\ request'.pid \in DOMAIN store
           /\ request'.cred = store[request'.pid]["user_id"]

\* The request just answered was generate-content, and it succeeded.
Generated == request.op = "generate_content" /\ response.status = 200

\* C1: generate-content only fills gaps: a Content Map entry whose content is
\* non-empty is left as it is, and when every item already has such an entry
\* no generation call is made.
C1_GenerateOnlyFillsGaps ==
  [][(Handled /\ request'.op = "generate_content" /\ response'.status = 200) =>
       LET old == store[request'.pid]["content"]
           new == store'[request'.pid]["content"]
           populated == {id \in DOMAIN old : old[id]["content"] # <<>>}
       IN  /\ \A id \in populated : id \in DOMAIN new /\ new[id] = old[id]
           /\ Len(calls') <= Len(Items(store[request'.pid])) - Cardinality(populated)]_vars

\* C2: an item without an id has, after generate-content, a non-empty id no
\* other item has; its Content Map entry is keyed by that id, and the stored
\* outline carries the id on the item at the same position.
C2_ItemsGetUniqueIds ==
  [][(Handled /\ request'.op = "generate_content" /\ response'.status = 200) =>
       LET before == Items(store[request'.pid])
           after == Items(store'[request'.pid])
       IN  /\ Len(after) = Len(before)
           /\ \A i \in 1..Len(before) :
                "id" \notin DOMAIN before[i] =>
                  /\ "id" \in DOMAIN after[i]
                  /\ after[i]["id"] # ""
                  /\ \A j \in 1..Len(after) : j # i => Get(after[j], "id", "") # after[i]["id"]
                  /\ after[i]["id"] \in DOMAIN store'[request'.pid]["content"]
                  /\ after[i]["title"] = before[i]["title"]
                  /\ after[i]["order"] = before[i]["order"]]_vars

\* C3: a refine request by the owner for a section id the Content Map does not
\* have is answered with "Section not found", and the store is left as it was.
C3_RefineMissingSection ==
  [][(Handled /\ request'.op = "refine_content" /\ ByOwner
        /\ request'.body.section_id \notin DOMAIN store[request'.pid]["content"]) =>
       /\ response'.status = 404
       /\ response'.body = <<"Section not found">>
       /\ store' = store]_vars

ProjectScoped ==
  {"get_project", "update_project", "delete_project", "generate_template",
   "generate_content", "refine_content", "add_feedback", "add_comment", "export_document"}

\* C5: a project-scoped request for a project that does not exist, or from a
\* signed-in caller who is not its owner, is rejected; the store is unchanged
\* and no generation call is made.
C5_NoAccessNoEffect ==
  [][(Handled /\ request'.op \in ProjectScoped /\ request'.cred \in Users /\ ~ByOwner) =>
       /\ response'.status \in {403, 404, 500}
       /\ store' = store
       /\ calls' = <<>>]_vars

\* C5 witness: generate-content by a signed-in user who does not own the
\* project, which has items and an API key to generate them with, is refused.
C5_Witness ==
  /\ request.op = "generate_content"
  /\ request.cred \in Users
  /\ request.pid \in DOMAIN store
  /\ store[request.pid]["user_id"] # request.cred
  /\ Items(store[request.pid]) # <<>>
  /\ gemini_api_key
  /\ response.status = 403

\* C6: a request without a bearer credential, or with one that fails
\* verification, is answered 401 or 403; nothing is created or changed in the
\* store and no generation call is made.
C6_UnauthenticatedRejected ==
  [][(Handled /\ request'.cred \notin Users) =>
       /\ response'.status \in {401, 403}
       /\ store' = store
       /\ nextId' = nextId
       /\ calls' = <<>>]_vars

\* C6 witness: create-project with a credential that fails verification is
\* answered 401 while the store could still take the project.
C6_Witness ==
  /\ request.op = "create_project"
  /\ request.cred = "<invalid>"
  /\ response.status = 401
  /\ nextId <= MaxProjects

\* C7: the history log is append-only: a project is created with an empty
\* history, and every step leaves the history of a project it keeps as a
\* prefix of the history after the step.
C7_HistoryAppendOnly ==
  [][/\ \A p \in DOMAIN store' \ DOMAIN store : store'[p]["refinement_history"] = <<>>
     /\ \A p \in DOMAIN store' \cap DOMAIN store :
          IsPrefix(store[p]["refinement_history"], store'[p]["refinement_history"])]_vars

\* C7 witness: a history of two entries, the second appended to the first.
C7_Witness ==
  \E p \in DOMAIN store :
    /\ Len(store[p]["refinement_history"]) = 2
    /\ store[p]["refinement_history"][1]["type"] = "feedback"
    /\ store[p]["refinement_history"][2]["type"] = "comment"
    /\ request.op = "add_comment"

\* C8: generate-content completes whatever calls fail: the Content Map it
\* stores has one entry per item, and the entry of an item whose call failed
\* holds the error text.
C8_FailureDoesNotAbort ==
  (Generated /\ gemini_api_key) =>
    LET items == SortedItems(Items(store[request.pid]))
        content == store[request.pid]["content"]
        IdOf(i) == Get(items[i], "id",
                       (IF store[request.pid]["document_type"] = "docx"
                        THEN "section_" ELSE "slide_") \o ToString(ItemOrder(items[i])))
    IN  /\ Len(calls) = Len(items)
        /\ Cardinality(DOMAIN content) = Len(items)
        /\ \A i \in 1..Len(items) :
             /\ IdOf(i) \in DOMAIN content
             /\ calls[i].raised => content[IdOf(i)]["content"][1] = "Error generating content: "

NotGenerated == <<"not generated">>

\* The body the claim gives item x: the entry with its id, else the entry with
\* its order, else the placeholder.
C9_BodyOf(content, x) ==
  IF "id" \in DOMAIN x /\ x["id"] \in DOMAIN content THEN {content[x["id"]]["content"]}
  ELSE IF \E k \in DOMAIN content : content[k]["order"] = ItemOrder(x)
  THEN {content[k]["content"] : k \in {k \in DOMAIN content : content[k]["order"] = ItemOrder(x)}}
  ELSE {NotGenerated}

\* C9: export renders one section per outline item, in ascending order (ties
\* in outline order), each with the body resolved by id, then by order, then
\* the "not generated" placeholder.
C9_ExportOnePerItem ==
  (request.op = "export_document" /\ response.status = 200) =>
    LET items == SortedItems(Items(store[request.pid]))
        content == store[request.pid]["content"]
        sections == response.body.sections
    IN  /\ Len(sections) = Len(items)
        /\ \A i \in 1..Len(items) : sections[i].body \in C9_BodyOf(content, items[i])

FromOwner == /\ request.pid \in DOMAIN store
             /\ request.cred = store[request.pid]["user_id"]

\* C11: without a text-generation credential no operation invokes the model:
\* generate-content stores the placeholder text for every item,
\* generate-template returns an empty sequence, and neither they nor refine
\* (on a section the Content Map has) report an error to the owner.
C11_NoCredentialNoModelCall ==
  ~gemini_api_key =>
    /\ calls = <<>>
    /\ (FromOwner /\ request.op = "generate_content") =>
         /\ response.status = 200
         /\ \A id \in DOMAIN response.body.content :
              response.body.content[id]["content"]
                = PlaceholderText(response.body.content[id]["title"])
    /\ (FromOwner /\ request.op = "generate_template") =>
         /\ response.status = 200
         /\ response.body.template = <<>>
    /\ (FromOwner /\ request.op = "refine_content"
          /\ request.body.section_id \in DOMAIN store[request.pid]["content"]) =>
         response.status = 200

\* C12: the document kind is immutable: no step changes the document_type of
\* a project it keeps.
C12_DocumentTypeImmutable ==
  [][\A p \in DOMAIN store \cap DOMAIN store' :
       store'[p]["document_type"] = store[p]["document_type"]]_vars

\* C12 witness: the owner's update naming document_type was accepted, on a
\* pptx project whose slides have been generated, and the project is still pptx.
C12_Witness ==
  /\ request.op = "update_project"
  /\ "document_type" \in request.body
  /\ response.status = 200
  /\ store[request.pid]["document_type"] = "pptx"
  /\ store[request.pid]["content"] # <<>>

\* C15: export and generate-template are read-only: whoever calls them and
\* whatever they answer, the store is the same after the request as before.
C15_ExportAndTemplateReadOnly ==
  [][(Handled /\ request'.op \in {"export_document", "generate_template"}) =>
       store' = store]_vars

\* C15 witness: generate-template returned a template to the owner, and the
\* items stored on the project are not that template.
C15_Witness ==
  /\ request.op = "generate_template"
  /\ response.status = 200
  /\ response.body.template # <<>>
  /\ Items(store[request.pid]) # response.body.template

\* The place of item k in the processing order of the claim: behind every
\* item of smaller order and every earlier item of the same order.
C14_Rank(items, k) ==
  1 + Cardinality({j \in 1..Len(items) :
                     \/ ItemOrder(items[j]) < ItemOrder(items[k])
                     \/ ItemOrder(items[j]) = ItemOrder(items[k]) /\ j < k})

C14_Processed(items) ==
  [i \in 1..Len(items) |-> items[CHOOSE k \in 1..Len(items) : C14_Rank(items, k) = i]]

C13_ConcurrentAppendsBothKept ==
  \A w1 \in DOMAIN inflight, w2 \in DOMAIN inflight :
    (/\ w1 # w2
     /\ inflight[w1].done
     /\ inflight[w2].done
     /\ inflight[w1].req.pid = inflight[w2].req.pid) =>
      LET history == Get(store[inflight[w1].req.pid], "refinement_history", <<>>)
      IN  /\ Len(history) >= 2
          /\ \E i \in 1..Len(history), j \in 1..Len(history) :
               /\ i # j
               /\ history[i] = inflight[w1].entry
               /\ history[j] = inflight[w2].entry

====
